---- MODULE Spec2Model ----
(***************************************************************************)
(* Model of the Airbnb host-profile scraper: src/main.py (SeleniumScraper, *)
(* the persistence helpers) and the worker of src/gui.py that calls it.    *)
(*                                                                         *)
(* A listing URL is a number.  A table row is <<source_url, scraped_at>>;  *)
(* scraped_at is the number of the run that produced the row (0 for rows   *)
(* that were on disk before the first run).  A table (DataFrame, xlsx      *)
(* sheet) is a sequence of rows.  Every file read that the code wraps in   *)
(* try/except may fail, every write may raise.                             *)
(***************************************************************************)
EXTENDS Integers, Sequences, FiniteSets, TLC

\* ------------------------------------------------------------- bounds
SmallSite == 2
MaxTarget == 2
MaxRuns == 2
MaxNewArg == 2
MaxPage == 2

MaxCityLen == 3
MaxQtdLen == 2
MaxCityText == 3
MaxTokens == 4
MaxBatch == 2
MaxLogs == 1

\* ------------------------------------------------- program constants
CHECKPOINT_SIZE == 5
MIN_CITY_LEN == 3
DISCOVERY_MARGIN == 5
DISCOVERY_FLOOR == 20

VARIABLES
    world,            \* [site, targets, runs, faulty]: listings on the site, targets the
                      \* operator may type, runs allowed, whether file and driver calls may fail
    run,              \* number of runs started so far (the clock of scraped_at)
    discFile,         \* data/urls_descobertas_<slug>.txt: [exists, lines]
    outFile,          \* perfis_airbnb_<slug>.xlsx: [exists, rows]
    debugFile,        \* debug/erro_busca_<slug>.png: [exists, run]
    pc,               \* position of the worker thread / of run()
    target_count,     \* self.target_count
    output_df,        \* self.output_df
    processed_urls,   \* self.processed_urls
    discovered_urls,  \* self.discovered_urls
    driver,           \* self.driver is not None
    pending_urls,     \* run(): pending_urls
    max_new,          \* discover_listings: max_new
    new_urls,         \* discover_listings: new_urls
    page_number,      \* discover_listings: page_number, only logged; kept modulo MaxPage
    urls_to_scrape,   \* run(): urls_to_scrape
    index,            \* run(): URLs of urls_to_scrape already visited
    buffer,           \* run(): buffer
    notice,           \* dialog the GUI worker asked for: "none", "success", "error"
    hist,             \* observations of the current run: what it started from and what it did
    is_running,       \* gui.py: ModernApp.is_running
    threads,          \* gui.py: worker threads that are inside run_scraper
    after_queue,      \* gui.py: callbacks posted with self.after(0, ...), not yet dispatched
    click,            \* gui.py: the last start click: [city, qtd, busy, started]
    console,          \* gui.py: lines shown in the log console since it was cleared
    call              \* the last call of a text function: [fn, arg, result]

vars == <<world, run, discFile, outFile, debugFile, pc, target_count, output_df, processed_urls,
          discovered_urls, driver, pending_urls, max_new, new_urls, page_number,
          urls_to_scrape, index, buffer, notice, hist, is_running, threads,
          after_queue, click, console, call>>

\* the window's state and the last text-function call; the scraper never touches them
gui == <<is_running, threads, after_queue, click, console, call>>

mem == <<target_count, output_df, processed_urls, discovered_urls, driver, pending_urls,
         max_new, new_urls, page_number, urls_to_scrape, index, buffer>>

\* ------------------------------------------------------------ helpers
Max(a, b) == IF a >= b THEN a ELSE b

Min(a, b) == IF a <= b THEN a ELSE b

SetMin(S) == CHOOSE x \in S : \A y \in S : x <= y

Range(s) == {s[i] : i \in DOMAIN s}

Urls(df) == {df[i][1] : i \in DOMAIN df}

Injective(s) == \A i, j \in DOMAIN s : s[i] = s[j] => i = j

NoDuplicateUrl(df) == \A i, j \in DOMAIN df : df[i][1] = df[j][1] => i = j

Site == 1..world.site

\* outcomes of a call that may raise: TRUE = it succeeds
Outcome == IF world.faulty THEN BOOLEAN ELSE {TRUE}

\* ------------------------------------------------- persistence helpers
\* sorted(urls) joined by newlines
RECURSIVE SortedLines(_)
SortedLines(S) ==
    IF S = {} THEN <<>>
    ELSE LET m == SetMin(S) IN <<m>> \o SortedLines(S \ {m})

save_discovered_urls_skipped(urls) == [exists |-> FALSE, lines |-> <<>>]

save_discovered_urls(urls) == [exists |-> TRUE, lines |-> SortedLines(urls)]

\* the set of the file's lines; empty if the file is absent or the read raises
load_discovered_urls(file, readOk) ==
    IF ~file.exists THEN {}
    ELSE IF readOk THEN Range(file.lines) ELSE {}

\* empty DataFrame if the file is absent or the read raises
load_existing_dataframe(file, readOk) ==
    IF ~file.exists THEN <<>>
    ELSE IF readOk THEN file.rows ELSE <<>>

load_processed_urls(file, readOk) == Urls(load_existing_dataframe(file, readOk))

\* DataFrame.drop_duplicates(subset="source_url", keep="last")
RECURSIVE drop_duplicates(_)
drop_duplicates(df) ==
    IF df = <<>> THEN <<>>
    ELSE LET h == Head(df)
             t == Tail(df)
         IN IF \E j \in DOMAIN t : t[j][1] = h[1]
            THEN drop_duplicates(t)
            ELSE <<h>> \o drop_duplicates(t)

\* flush_buffer, lines 200-214: the table that is about to be written
flush_table_batch_only(df, rows, file, readOk) ==
    drop_duplicates(rows)

flush_table(df, rows, file, readOk) ==
    drop_duplicates(
        IF file.exists
        THEN IF readOk THEN file.rows \o rows ELSE df
        ELSE IF df = <<>> THEN rows ELSE df \o rows)

\* list(a set): some order of its elements, each once
RECURSIVE list_repeating(_)
list_repeating(S) ==
    IF S = {} THEN {<<>>}
    ELSE UNION {{<<x>> \o p : p \in list_repeating(S \ {x})} \cup
                {<<x, x>> \o p : p \in list_repeating(S \ {x})} : x \in S}

RECURSIVE list(_)
list(S) ==
    IF S = {} THEN {<<>>}
    ELSE UNION {{<<x>> \o p : p \in list(S \ {x})} : x \in S}

\* discovered - processed
pending_set_unfiltered(discovered, processed) == discovered

pending_set(discovered, processed) == discovered \ processed

\* pending_urls[: target_count]
take_all(s, n) == s

take_one_more(s, n) == SubSeq(s, 1, Min(n + 1, Len(s)))

take(s, n) == SubSeq(s, 1, Min(n, Len(s)))

\* run(), lines 257-262: the URL joins processed_urls only when scrape_profile
\* returned a record
mark_processed_always(processed, url, ok) == processed \cup {url}

mark_processed(processed, url, ok) == IF ok THEN processed \cup {url} ELSE processed

\* run(), line 231: more URLs are needed
needs_discovery_when_empty(pending, target) == pending = <<>>

needs_discovery(pending, target) == Len(pending) < target

\* run(), line 265: a checkpoint is due
checkpoint_never(n) == FALSE

checkpoint_due(n) == n >= CHECKPOINT_SIZE

\* max(need + 5, 20)
discovery_quota(need) == Max(need + DISCOVERY_MARGIN, DISCOVERY_FLOOR)

on_discovery_error_discard(found) == {}

\* discover_listings, lines 344-347: the except clause logs, and the function
\* returns the set collected so far
on_discovery_error(found) == found

\* close_driver, lines 188-194: quit (an exception of quit is swallowed), then
\* self.driver = None; the result is the driver field, TRUE = a live session
close_driver_skipped(d) == d

close_driver(d) == FALSE

\* ---------------------------------------------------------- initial states
NoClick == [city |-> <<>>, qtd |-> <<>>, busy |-> FALSE, started |-> FALSE]

NoCall == [fn |-> "none", arg |-> <<>>, result |-> <<>>]

\* gui.py ModernApp.__init__, line 33: nothing running, nothing queued
GuiInit ==
    /\ is_running = FALSE
    /\ threads = 0
    /\ after_queue = <<>>
    /\ click = NoClick
    /\ console = 0
    /\ call = NoCall

NoFile == [exists |-> FALSE, lines |-> <<>>]

NoTable == [exists |-> FALSE, rows |-> <<>>]

\* build_paths, line 76: the screenshot path of the city; nothing is there
NoScreenshot == [exists |-> FALSE, run |-> 0]

NoHist ==
    [startProcessed |-> {}, startDiscovered |-> {}, startPending |-> <<>>,
     startRows |-> <<>>, calls |-> <<>>, discCalls |-> 0, found |-> {},
     fatal |-> FALSE, faults |-> FALSE, flushes |-> 0, lastBatch |-> <<>>,
     prevRows |-> <<>>, began |-> FALSE, misses |-> 0, unreadable |-> FALSE,
     failed |-> {}, prevFailed |-> {}, loadsOk |-> FALSE, handed |-> 0,
     discError |-> FALSE, collected |-> {}]

MemInit ==
    /\ target_count = 0
    /\ output_df = <<>>
    /\ processed_urls = {}
    /\ discovered_urls = {}
    /\ driver = FALSE
    /\ pending_urls = <<>>
    /\ max_new = 0
    /\ new_urls = {}
    /\ page_number = 0
    /\ urls_to_scrape = <<>>
    /\ index = 0
    /\ buffer = <<>>

MemReset ==
    /\ target_count' = 0
    /\ output_df' = <<>>
    /\ processed_urls' = {}
    /\ discovered_urls' = {}
    /\ driver' = FALSE
    /\ pending_urls' = <<>>
    /\ max_new' = 0
    /\ new_urls' = {}
    /\ page_number' = 0
    /\ urls_to_scrape' = <<>>
    /\ index' = 0
    /\ buffer' = <<>>

\* a small site, nothing on disk yet, several runs
InitFresh ==
    /\ world \in [site : 0..SmallSite, targets : {0..MaxTarget}, runs : {MaxRuns},
                 faulty : {TRUE}]
    /\ discFile = NoFile
    /\ outFile = NoTable

\* the re-run scenario: five URLs known, three of them already in the table
InitRerun ==
    /\ world \in [site : {5, 6}, targets : {{5}}, runs : {1}, faulty : {FALSE}]
    /\ discFile = save_discovered_urls(1..5)
    /\ outFile = [exists |-> TRUE, rows |-> <<<<1, 0>>, <<2, 0>>, <<3, 0>>>>]

\* a site with one more listing than CHECKPOINT_SIZE, none scraped yet
InitBulk ==
    /\ world \in [site : {CHECKPOINT_SIZE + 1}, targets : {{CHECKPOINT_SIZE + 1}}, runs : {1},
                 faulty : {FALSE}]
    /\ discFile \in {NoFile, save_discovered_urls(1..(CHECKPOINT_SIZE + 1))}
    /\ outFile \in {NoTable, [exists |-> TRUE, rows |-> <<>>]}

Init ==
    /\ InitFresh \/ InitRerun \/ InitBulk
    /\ run = 0
    /\ pc = "idle"
    /\ MemInit
    /\ notice = "none"
    /\ hist = NoHist
    /\ debugFile = NoScreenshot
    /\ GuiInit

\* ------------------------------------------------------------- the run
\* lines 244-250: take the first target_count pending URLs; none: return
\* (the finally block closes the driver), else enter the scraping loop
Select(pending) ==
    /\ pending_urls' = pending
    /\ urls_to_scrape' = take(pending, target_count)
    /\ index' = 0
    /\ buffer' = <<>>
    /\ IF take(pending, target_count) = <<>>
       THEN pc' = "returned" /\ driver' = close_driver(TRUE)
       ELSE pc' = "loop" /\ driver' = TRUE

\* gui.py run_process_thread -> run_scraper -> SeleniumScraper.__init__:
\* build_paths (its mkdir calls may raise, nothing catches that before the
\* worker), then the three loads, each with its own try/except
StartRun ==
    /\ UNCHANGED <<gui, debugFile>>
    /\ pc = "idle"
    /\ run < world.runs
    /\ run' = run + 1
    /\ notice' = "none"
    /\ \E t \in world.targets, ctorOk, okDf, okProc, okDisc \in Outcome :
         IF ~ctorOk
         THEN /\ pc' = "raised"
              /\ hist' = [NoHist EXCEPT !.startRows = outFile.rows, !.fatal = TRUE,
                                         !.prevFailed = hist.prevFailed]
              /\ UNCHANGED mem
         ELSE /\ pc' = "constructed"
              /\ target_count' = Max(1, t)
              /\ output_df' = load_existing_dataframe(outFile, okDf)
              /\ processed_urls' = load_processed_urls(outFile, okProc)
              /\ discovered_urls' = load_discovered_urls(discFile, okDisc)
              /\ hist' = [NoHist EXCEPT
                            !.startRows = outFile.rows,
                            !.startProcessed = load_processed_urls(outFile, okProc),
                            !.startDiscovered = load_discovered_urls(discFile, okDisc),
                            !.faults = \/ (outFile.exists /\ ~(okDf /\ okProc))
                                       \/ (discFile.exists /\ ~okDisc),
                            !.unreadable = outFile.exists /\ ~okDf /\ ~okProc,
                            !.loadsOk = /\ outFile.exists => okProc
                                        /\ discFile.exists => okDisc,
                            !.prevFailed = hist.prevFailed]
              /\ UNCHANGED <<driver, pending_urls, max_new, new_urls, page_number,
                             urls_to_scrape, index, buffer>>
    /\ UNCHANGED <<world, discFile, outFile>>

\* run(), lines 223-234 (and 244-250 when no discovery is needed):
\* setup_driver, the pending queue, the decision to discover
RunBegin ==
    /\ UNCHANGED <<gui, debugFile>>
    /\ pc = "constructed"
    /\ \E setupOk \in Outcome :
         IF ~setupOk
         THEN \* setup_driver raised, before or after self.driver was assigned
              \* (lines 184-186); except Exception: log; finally: close_driver
              /\ pc' = "returned"
              /\ hist' = [hist EXCEPT !.fatal = TRUE, !.faults = TRUE]
              /\ \E created \in BOOLEAN : driver' = close_driver(created)
              /\ UNCHANGED <<pending_urls, max_new, new_urls, page_number,
                             urls_to_scrape, index, buffer>>
         ELSE \E pending \in list(pending_set(discovered_urls, processed_urls)) :
                IF needs_discovery(pending, target_count)
                THEN /\ pc' = "disc_nav"
                     /\ driver' = TRUE
                     /\ pending_urls' = pending
                     /\ max_new' = discovery_quota(target_count - Len(pending))
                     /\ new_urls' = {}
                     /\ page_number' = 1
                     /\ hist' = [hist EXCEPT !.startPending = pending, !.began = TRUE,
                                             !.discCalls = @ + 1]
                     /\ UNCHANGED <<urls_to_scrape, index, buffer>>
                ELSE /\ Select(pending)
                     /\ hist' = [hist EXCEPT !.startPending = pending, !.began = TRUE]
                     /\ UNCHANGED <<max_new, new_urls, page_number>>
    /\ UNCHANGED <<world, run, discFile, outFile, notice, target_count, output_df,
                   processed_urls, discovered_urls>>

\* discover_listings, lines 283-291 and 344-345: driver.get(search_url);
\* an exception ends the discovery with what was found (nothing yet)
DiscNavigate ==
    /\ UNCHANGED <<gui, debugFile>>
    /\ pc = "disc_nav"
    /\ \E ok \in BOOLEAN :
         /\ pc' = IF ok /\ Cardinality(new_urls) < max_new THEN "disc_page" ELSE "disc_ret"
         /\ IF ok
            THEN UNCHANGED <<hist, new_urls>>
            ELSE \* driver.get raised: except at line 344
                 /\ new_urls' = on_discovery_error(new_urls)
                 /\ hist' = [hist EXCEPT !.discError = TRUE, !.collected = new_urls]
    /\ UNCHANGED <<world, run, discFile, outFile, notice, target_count, output_df,
                   processed_urls, discovered_urls, driver, pending_urls, max_new,
                   page_number, urls_to_scrape, index, buffer>>

\* discover_listings, lines 291-342: one turn of the while loop on the
\* current search page.  links: the clean hrefs of the page's room anchors.
DiscPage ==
    /\ UNCHANGED <<gui, debugFile>>
    /\ pc = "disc_page"
    /\ \E outcome \in {"error", "next", "last", "next_error"}, links \in SUBSET Site :
         LET found == new_urls \cup (links \ discovered_urls) IN
         IF outcome = "error"
         THEN \* scroll or find_elements raised: except at line 344
              /\ pc' = "disc_ret"
              /\ new_urls' = on_discovery_error(new_urls)
              /\ hist' = [hist EXCEPT !.discError = TRUE, !.collected = new_urls]
              /\ UNCHANGED page_number
         ELSE /\ new_urls' = found
              /\ UNCHANGED hist
              /\ IF Cardinality(found) >= max_new
                 THEN pc' = "disc_ret" /\ UNCHANGED page_number
                 ELSE IF outcome = "next"
                      THEN \* a next button was clicked; the while condition holds
                           /\ pc' = "disc_page"
                           /\ page_number' = (page_number % MaxPage) + 1
                      ELSE \* no usable button, or looking for it raised: break
                           /\ pc' = "disc_ret"
                           /\ UNCHANGED page_number
    /\ UNCHANGED <<world, run, discFile, outFile, notice, target_count, output_df,
                   processed_urls, discovered_urls, driver, pending_urls, max_new,
                   urls_to_scrape, index, buffer>>

\* run(), lines 234-250: merge and save what discovery returned, recompute
\* the pending queue, select
RunAfterDiscovery ==
    /\ UNCHANGED <<gui, debugFile>>
    /\ pc = "disc_ret"
    /\ IF new_urls # {}
       THEN \E writeOk \in Outcome :
              /\ discovered_urls' = discovered_urls \cup new_urls
              /\ IF writeOk
                 THEN /\ discFile' = save_discovered_urls(discovered_urls \cup new_urls)
                      /\ \E pending \in list(pending_set(discovered_urls \cup new_urls,
                                                         processed_urls)) :
                           Select(pending)
                      /\ hist' = [hist EXCEPT !.found = new_urls, !.discError = FALSE,
                                              !.collected = {}]
                 ELSE \* write_text raised: except Exception, finally close_driver
                      /\ pc' = "returned"
                      /\ driver' = close_driver(driver)
                      /\ hist' = [hist EXCEPT !.found = new_urls, !.fatal = TRUE,
                                              !.faults = TRUE, !.discError = FALSE,
                                              !.collected = {}]
                      /\ UNCHANGED <<discFile, pending_urls, urls_to_scrape, index, buffer>>
       ELSE /\ Select(pending_urls)
            /\ hist' = [hist EXCEPT !.discError = FALSE, !.collected = {}]
            /\ UNCHANGED <<discFile, discovered_urls>>
    /\ UNCHANGED <<world, run, outFile, notice, target_count, output_df, processed_urls,
                   max_new, new_urls, page_number>>

\* flush_buffer with a non-empty batch, lines 200-219: reload, concatenate,
\* drop duplicates, write.  to_excel may raise; self.output_df is assigned
\* before the write either way.
Flush(rows, readOk, writeOk) ==
    LET table == flush_table(output_df, rows, outFile, readOk) IN
    /\ output_df' = table
    /\ IF writeOk
       THEN /\ outFile' = [exists |-> TRUE, rows |-> table]
            /\ hist' = [hist EXCEPT !.flushes = @ + 1,
                                    !.handed = @ + Len(rows),
                                    !.lastBatch = rows,
                                    !.prevRows = outFile.rows,
                                    !.faults = @ \/ (outFile.exists /\ ~readOk)]
       ELSE /\ outFile' = outFile
            /\ hist' = [hist EXCEPT !.fatal = TRUE, !.faults = TRUE]

\* run(), lines 252-270: one iteration of the scraping loop.  scrape_profile
\* returns a record (always with a host_profile_url) or None.
RunScrape ==
    /\ UNCHANGED <<gui, debugFile>>
    /\ pc = "loop"
    /\ index < Len(urls_to_scrape)
    /\ \E ok \in BOOLEAN, readOk, writeOk \in Outcome :
         LET url  == urls_to_scrape[index + 1]
             buf1 == IF ok THEN Append(buffer, <<url, run>>) ELSE buffer
             seen == [hist EXCEPT !.calls = Append(@, url),
                                  !.misses = IF ok THEN @ ELSE @ + 1,
                                  !.failed = IF ok THEN @ ELSE @ \cup {url}]
         IN
         /\ index' = index + 1
         /\ processed_urls' = mark_processed(processed_urls, url, ok)
         /\ IF checkpoint_due(Len(buf1))
            THEN LET table == flush_table(output_df, buf1, outFile, readOk) IN
                 /\ output_df' = table
                 /\ IF writeOk
                    THEN /\ outFile' = [exists |-> TRUE, rows |-> table]
                         /\ buffer' = <<>>
                         /\ pc' = "loop"
                         /\ driver' = driver
                         /\ hist' = [seen EXCEPT !.flushes = @ + 1,
                                                 !.handed = @ + Len(buf1),
                                                 !.lastBatch = buf1,
                                                 !.prevRows = outFile.rows,
                                                 !.faults = @ \/ (outFile.exists /\ ~readOk)]
                    ELSE /\ outFile' = outFile
                         /\ buffer' = buf1
                         /\ pc' = "returned"
                         /\ driver' = close_driver(driver)
                         /\ hist' = [seen EXCEPT !.fatal = TRUE, !.faults = TRUE]
            ELSE /\ buffer' = buf1
                 /\ pc' = "loop"
                 /\ hist' = seen
                 /\ UNCHANGED <<output_df, outFile, driver>>
    /\ UNCHANGED <<world, run, discFile, notice, target_count, discovered_urls,
                   pending_urls, max_new, new_urls, page_number, urls_to_scrape>>

\* run(), lines 272-280: the final flush of what is left in the buffer, the
\* closing log line, close_driver
RunFinish ==
    /\ UNCHANGED <<gui, debugFile>>
    /\ pc = "loop"
    /\ index = Len(urls_to_scrape)
    /\ pc' = "returned"
    /\ driver' = close_driver(driver)
    /\ IF buffer # <<>>
       THEN \E readOk, writeOk \in Outcome : Flush(buffer, readOk, writeOk)
       ELSE UNCHANGED <<output_df, outFile, hist>>
    /\ UNCHANGED <<world, run, discFile, notice, target_count, processed_urls,
                   discovered_urls, pending_urls, max_new, new_urls, page_number,
                   urls_to_scrape, index, buffer>>

\* the process dies (killed, power loss) anywhere inside run_scraper: only
\* the files survive
Crash ==
    /\ UNCHANGED <<gui, debugFile>>
    /\ pc \in {"constructed", "disc_nav", "disc_page", "disc_ret", "loop"}
    /\ pc' = "idle"
    /\ MemReset
    /\ hist' = [NoHist EXCEPT !.prevFailed = hist.failed]
    /\ UNCHANGED <<world, run, discFile, outFile, notice>>

\* gui.py lines 316-317: run_scraper returned
WorkerSuccess ==
    /\ UNCHANGED <<gui, debugFile>>
    /\ pc = "returned"
    /\ notice' = "success"
    /\ pc' = "idle"
    /\ MemReset
    /\ hist' = [NoHist EXCEPT !.fatal = hist.fatal, !.prevFailed = hist.failed]
    /\ UNCHANGED <<world, run, discFile, outFile>>

\* gui.py lines 319-321: run_scraper raised
WorkerError ==
    /\ UNCHANGED <<gui, debugFile>>
    /\ pc = "raised"
    /\ notice' = "error"
    /\ pc' = "idle"
    /\ MemReset
    /\ hist' = [NoHist EXCEPT !.fatal = hist.fatal, !.prevFailed = hist.failed]
    /\ UNCHANGED <<world, run, discFile, outFile>>

Next ==
    \/ StartRun
    \/ RunBegin
    \/ DiscNavigate
    \/ DiscPage
    \/ RunAfterDiscovery
    \/ RunScrape
    \/ RunFinish
    \/ Crash
    \/ WorkerSuccess
    \/ WorkerError

Spec == Init /\ [][Next]_vars

\* ---------------------------------------------- discover_listings alone
\* discover_listings(max_new) called on a scraper whose driver is up, for any
\* max_new and any set of already discovered URLs
DiscInit ==
    /\ world \in [site : {SmallSite + 1}, targets : {{1}}, runs : {1}, faulty : {TRUE}]
    /\ run = 1
    /\ discFile = NoFile
    /\ outFile = NoTable
    /\ pc = "disc_nav"
    /\ target_count = 1
    /\ output_df = <<>>
    /\ processed_urls = {}
    /\ discovered_urls \in SUBSET Site
    /\ driver = TRUE
    /\ pending_urls = <<>>
    /\ max_new \in 0..MaxNewArg
    /\ new_urls = {}
    /\ page_number = 1
    /\ urls_to_scrape = <<>>
    /\ index = 0
    /\ buffer = <<>>
    /\ notice = "none"
    /\ hist = NoHist
    /\ debugFile = NoScreenshot
    /\ GuiInit

DiscNext == DiscNavigate \/ DiscPage

DiscSpec == DiscInit /\ [][DiscNext]_vars

\* the interpreter keeps executing the loop: a step is taken whenever one is possible
FairDiscSpec == DiscInit /\ [][DiscNext]_vars /\ WF_vars(DiscNext)

\* ---------------------------------------------------------------- text
\* A text is a sequence of one-character strings.
Texts(chars, n) == UNION {[1..k -> chars] : k \in 0..n}

IsSpace(c) == c = " "

RECURSIVE lstrip(_)
lstrip(s) == IF s # <<>> /\ IsSpace(Head(s)) THEN lstrip(Tail(s)) ELSE s

RECURSIVE rstrip(_)
rstrip(s) == IF s # <<>> /\ IsSpace(s[Len(s)]) THEN rstrip(SubSeq(s, 1, Len(s) - 1)) ELSE s

\* str.strip()
strip(s) == rstrip(lstrip(s))

Digits == <<"0", "1", "2", "3", "4", "5", "6", "7", "8", "9">>

IsDigit(c) == \E i \in DOMAIN Digits : Digits[i] = c

DigitValue(c) == (CHOOSE i \in DOMAIN Digits : Digits[i] = c) - 1

RECURSIVE Decimal(_)
Decimal(ds) ==
    IF ds = <<>> THEN 0
    ELSE 10 * Decimal(SubSeq(ds, 1, Len(ds) - 1)) + DigitValue(ds[Len(ds)])

\* int(str): surrounding whitespace ignored, an optional sign, then one or more
\* decimal digits; anything else is a ValueError (ok = FALSE)
int(s) ==
    LET t      == strip(s)
        signed == t # <<>> /\ t[1] \in {"+", "-"}
        body   == IF signed THEN Tail(t) ELSE t
    IN IF body = <<>> \/ \E i \in DOMAIN body : ~IsDigit(body[i])
       THEN [ok |-> FALSE, value |-> 0]
       ELSE [ok |-> TRUE,
             value |-> IF signed /\ t[1] = "-" THEN 0 - Decimal(body) ELSE Decimal(body)]

\* ----------------------------------------------------------- city_slug
\* Characters outside ASCII are written by name: "e/acute" is the precomposed
\* letter U+00E9, "/acute" the combining accent U+0301, "/cjk" an ideograph.
NonAscii == {"e/acute", "/acute", "/cjk"}

UpperCase == <<"A", "B", "C", "D", "E", "F", "G", "H", "I", "J", "K", "L", "M",
               "N", "O", "P", "Q", "R", "S", "T", "U", "V", "W", "X", "Y", "Z">>

LowerCase == <<"a", "b", "c", "d", "e", "f", "g", "h", "i", "j", "k", "l", "m",
               "n", "o", "p", "q", "r", "s", "t", "u", "v", "w", "x", "y", "z">>

IsUpper(c) == \E i \in DOMAIN UpperCase : UpperCase[i] = c

IsLower(c) == \E i \in DOMAIN LowerCase : LowerCase[i] = c

\* [a-zA-Z0-9]
IsAlnum(c) == IsUpper(c) \/ IsLower(c) \/ IsDigit(c)

DEFAULT_CITY == <<"J", "a", "c", "a", "r", "e", "i", " ", "-", " ", "S", "P">>

CIDADE == <<"c", "i", "d", "a", "d", "e">>

\* normalize_city, lines 38-40
normalize_city(city) == IF strip(city) = <<>> THEN DEFAULT_CITY ELSE strip(city)

\* unicodedata.normalize("NFKD", s): a precomposed letter becomes its base
\* letter followed by the combining mark
RECURSIVE NFKD(_)
NFKD(s) ==
    IF s = <<>> THEN <<>>
    ELSE (IF Head(s) = "e/acute" THEN <<"e", "/acute">> ELSE <<Head(s)>>) \o NFKD(Tail(s))

\* s.encode("ascii", "ignore").decode("ascii")
ascii_ignore(s) == SelectSeq(s, LAMBDA c : c \notin NonAscii)

\* str.lower() of ASCII text
lower(s) ==
    [i \in DOMAIN s |->
        IF IsUpper(s[i])
        THEN LowerCase[CHOOSE k \in DOMAIN UpperCase : UpperCase[k] = s[i]]
        ELSE s[i]]

\* re.sub(r"[^a-zA-Z0-9]+", "-", s): every maximal run of other characters
\* becomes one hyphen
RECURSIVE sub_non_alnum(_)
sub_non_alnum(s) ==
    IF s = <<>> THEN <<>>
    ELSE IF IsAlnum(Head(s)) THEN <<Head(s)>> \o sub_non_alnum(Tail(s))
    ELSE IF Len(s) > 1 /\ ~IsAlnum(s[2]) THEN sub_non_alnum(Tail(s))
    ELSE <<"-">> \o sub_non_alnum(Tail(s))

\* str.strip("-")
RECURSIVE strip_hyphens(_)
strip_hyphens(s) ==
    IF s # <<>> /\ Head(s) = "-" THEN strip_hyphens(Tail(s))
    ELSE IF s # <<>> /\ s[Len(s)] = "-" THEN strip_hyphens(SubSeq(s, 1, Len(s) - 1))
    ELSE s

\* slug or "cidade", line 47
slug_unguarded(slug) == slug

slug_or_sentinel(slug) == IF slug = <<>> THEN CIDADE ELSE slug

\* city_slug, lines 43-47
city_slug(city) ==
    slug_or_sentinel(strip_hyphens(sub_non_alnum(lower(ascii_ignore(NFKD(normalize_city(city)))))))

\* city names the caller may pass
CityTextChars == {" ", "a", "B", "1", "-", "!", "e/acute", "/cjk"}

\* build_paths, line 63: slug = city_slug(city)
call_city_slug ==
    /\ call = NoCall
    /\ \E city \in Texts(CityTextChars, MaxCityText) :
         call' = [fn |-> "city_slug", arg |-> city, result |-> city_slug(city)]
    /\ UNCHANGED <<world, run, discFile, outFile, debugFile, pc, hist, mem, notice, is_running,
                   threads, after_queue, click, console>>

\* ------------------------------------------------ parse_listings_count
\* The text is a sequence of blank-separated tokens.  A token is [pre, num]:
\* num is its longest suffix made of digits, "." and ",", pre what precedes it.
\* Every pattern asks for blanks (\s+) between its number and its keyword, so
\* a match is a matter of neighbouring tokens: the captured group ends where
\* a token ends, and leftmost-match makes it start where num starts.
Word(w) == [pre |-> w, num |-> <<>>]

Number(n) == [pre |-> "", num |-> n]

\* what the element #listings-scroller-description may contain
Vocabulary ==
    {Word("de"), Word("mostrando"), Word("itens"), Word("listings"),
     Word("An/uacute/ncios"), Number(<<"1", "1">>), Number(<<"2", ".", "5">>),
     Number(<<".">>), Number(<<"0">>)}

\* line 118: NFKD, drop what is not ASCII, lower-case; "An/uacute/ncios" is
\* the word Anuncios written with U+00FA
normalized(text) ==
    [i \in DOMAIN text |->
        IF text[i].pre = "An/uacute/ncios" THEN [text[i] EXCEPT !.pre = "anuncios"]
        ELSE text[i]]

\* the keyword alternatives of the four patterns, lines 122-125
OF_WORDS == {"de", "of"}

KEYWORDS ==
    [of_n_items      |-> {"itens", "items", "listings", "anuncios", "acomodacoes"},
     showing         |-> {"itens", "items"},
     n_listings      |-> {"anuncios", "listings", "acomodacoes", "places"},
     digits_listings |-> {"listings", "anuncios"}]

\* lines 121-126: the patterns, in the order they are tried
patterns_last_first == <<"digits_listings", "n_listings", "showing", "of_n_items">>

patterns == <<"of_n_items", "showing", "n_listings", "digits_listings">>

\* the longest suffix of digits: what (\d+) captures at the end of a token
RECURSIVE digit_suffix(_)
digit_suffix(n) ==
    IF n = <<>> \/ ~IsDigit(n[Len(n)]) THEN <<>>
    ELSE Append(digit_suffix(SubSeq(n, 1, Len(n) - 1)), n[Len(n)])

\* positions where the captured group of a pattern may sit
group_at(pattern, t, j) ==
    /\ j + 1 \in DOMAIN t
    /\ t[j + 1].pre \in KEYWORDS[pattern]
    /\ CASE pattern = "of_n_items" ->
               j - 1 \in DOMAIN t /\ t[j - 1] \in {Word(w) : w \in OF_WORDS}
                 /\ t[j].pre = "" /\ t[j].num # <<>>
         [] pattern = "showing" ->
               t[j].num # <<>>
                 /\ \E i \in DOMAIN t : i <= j /\ t[i].pre = "mostrando"
         [] pattern = "n_listings" -> t[j].num # <<>>
         [] pattern = "digits_listings" -> digit_suffix(t[j].num) # <<>>

\* re.search(pattern, normalized): the leftmost match and its group(1)
search(pattern, t) ==
    LET at == {j \in DOMAIN t : group_at(pattern, t, j)} IN
    IF at = {} THEN [found |-> FALSE, group |-> <<>>]
    ELSE [found |-> TRUE,
          group |-> IF pattern = "digits_listings"
                    THEN digit_suffix(t[SetMin(at)].num)
                    ELSE t[SetMin(at)].num]

\* re.sub(r"[^\d]", "", group)
only_digits(group) == SelectSeq(group, IsDigit)

\* lines 128-136: the loop over the patterns from the k-th on
RECURSIVE try_patterns(_, _)
try_patterns(t, k) ==
    IF k > Len(patterns) THEN 0
    ELSE LET match == search(patterns[k], t) IN
         IF match.found /\ only_digits(match.group) # <<>>
         THEN Decimal(only_digits(match.group))
         ELSE try_patterns(t, k + 1)

\* parse_listings_count, lines 111-136
parse_listings_count(text) ==
    IF text = <<>> THEN 0 ELSE try_patterns(normalized(text), 1)

\* scrape_profile, line 465
call_parse_listings_count ==
    /\ call = NoCall
    /\ \E text \in Texts(Vocabulary, MaxTokens) :
         call' = [fn |-> "parse_listings_count", arg |-> text,
                  result |-> parse_listings_count(text)]
    /\ UNCHANGED <<world, run, discFile, outFile, debugFile, pc, hist, mem, notice, is_running,
                   threads, after_queue, click, console>>

\* ------------------------------------------------------------- the window
\* what the operator may have typed in the two entry fields
CityChars == {" ", "a"}

QtdChars == {"-", "0", "1"}

\* on_start_click, lines 268-269
reentry_never_blocked(running) == FALSE

reentry_blocked(running) == running

\* on_start_click, line 275
city_ok_any(city) == TRUE

city_ok(city) == city # <<>> /\ Len(city) >= MIN_CITY_LEN

\* on_start_click, lines 279-284
qty_ok(qtd_str) == int(qtd_str).ok /\ int(qtd_str).value > 0

\* self.after(0, callback): the callback joins the Tk event queue behind the
\* ones posted before it
post_in_front(queue, callback) == <<callback>> \o queue

post(queue, callback) == Append(queue, callback)

\* run_process_thread, lines 322-323: finally: self.after(0, self.on_process_finished)
on_worker_exit_silent(queue, r) == queue

on_worker_exit(queue, r) == post(queue, [fn |-> "on_process_finished", run |-> r])

\* log lines waiting in the event queue
QueuedLogs == Cardinality({i \in DOMAIN after_queue : after_queue[i].fn = "_append_log"})

\* on_start_click, lines 267-303: the whole handler, for any content of the two
\* entry fields (they are read only after the is_running test).  save_config
\* swallows its errors; clear_logs empties the console, the opening log line
\* is posted with self.log, and the worker thread is started last.
on_start_click ==
    /\ run < world.runs
    /\ IF reentry_blocked(is_running)
       THEN /\ click' = [NoClick EXCEPT !.busy = TRUE]
            /\ UNCHANGED <<is_running, threads, notice, run, console, after_queue>>
       ELSE \E city_text \in Texts(CityChars, MaxCityLen),
               qtd_text \in Texts(QtdChars, MaxQtdLen) :
              LET city    == strip(city_text)
                  qtd_str == strip(qtd_text)
                  seen    == [city |-> city_text, qtd |-> qtd_text,
                              busy |-> is_running, started |-> FALSE]
              IN
              IF ~city_ok(city)
              THEN /\ click' = seen
                   /\ notice' = "warn_city"
                   /\ UNCHANGED <<is_running, threads, run, console, after_queue>>
              ELSE IF ~qty_ok(qtd_str)
              THEN /\ click' = seen
                   /\ notice' = "warn_qty"
                   /\ UNCHANGED <<is_running, threads, run, console, after_queue>>
              ELSE /\ click' = [seen EXCEPT !.started = TRUE]
                   /\ is_running' = TRUE
                   /\ console' = 0
                   /\ after_queue' = post(after_queue, [fn |-> "_append_log", run |-> run + 1])
                   /\ threads' = threads + 1
                   /\ run' = run + 1
                   /\ notice' = "none"
    /\ UNCHANGED <<world, discFile, outFile, debugFile, pc, hist, mem, call>>

\* log, lines 205-207, called by the scraper on the worker thread through
\* log_callback: the line is posted, nothing else is touched.  At most MaxLogs
\* such lines per run.
log ==
    /\ threads > 0
    /\ console + QueuedLogs < MaxLogs + 1
    /\ after_queue' = post(after_queue, [fn |-> "_append_log", run |-> run])
    /\ UNCHANGED <<world, run, discFile, outFile, debugFile, pc, hist, mem, notice,
                   is_running, threads, click, console, call>>

\* run_process_thread, lines 305-324: run_scraper returns or raises, the worker
\* posts the closing log line and the matching dialog, then (finally)
\* on_process_finished, and ends
run_process_thread ==
    /\ threads > 0
    /\ threads' = threads - 1
    /\ \E outcome \in {"showinfo", "showerror"} :
         after_queue' =
             on_worker_exit(post(post(after_queue, [fn |-> "_append_log", run |-> run]),
                                 [fn |-> outcome, run |-> run]),
                            run)
    /\ UNCHANGED <<world, run, discFile, outFile, debugFile, pc, hist, mem, notice,
                   is_running, click, console, call>>

\* the Tk main loop runs the oldest posted callback: _append_log (lines
\* 209-223), a dialog, or on_process_finished (lines 326-329)
after_callback ==
    /\ after_queue # <<>>
    /\ after_queue' = Tail(after_queue)
    /\ LET callback == Head(after_queue).fn IN
       IF callback = "on_process_finished"
       THEN is_running' = FALSE /\ UNCHANGED <<notice, console>>
       ELSE IF callback = "_append_log"
       THEN console' = console + 1 /\ UNCHANGED <<notice, is_running>>
       ELSE /\ notice' = IF callback = "showinfo" THEN "success" ELSE "error"
            /\ UNCHANGED <<is_running, console>>
    /\ UNCHANGED <<world, run, discFile, outFile, debugFile, pc, hist, mem, threads,
                   click, call>>

GuiNext == on_start_click \/ log \/ run_process_thread \/ after_callback

\* nothing on disk, nothing running, the window just opened
Quiescent ==
    /\ world = [site |-> 0, targets |-> {1}, runs |-> MaxRuns, faulty |-> TRUE]
    /\ run = 0
    /\ discFile = NoFile
    /\ outFile = NoTable
    /\ pc = "idle"
    /\ MemInit
    /\ notice = "none"
    /\ hist = NoHist
    /\ debugFile = NoScreenshot
    /\ GuiInit

GuiSpec == Quiescent /\ [][GuiNext]_vars

\* the Tk main loop keeps dispatching posted callbacks as long as there are any
FairGuiSpec == Quiescent /\ [][GuiNext]_vars /\ WF_vars(after_callback)

\* ------------------------------------------------------- text functions
\* one call of one of the two text functions, on any text
TextNext == call_city_slug \/ call_parse_listings_count

TextSpec == Quiescent /\ [][TextNext]_vars

\* ------------------------------------------------------- scrape_profile
\* What the browser does on one listing, step by step:
\*   nav         driver.get(listing_url) succeeds
\*   title       the finder that yields the title: "xpath", "h1" or "none"
\*   scripts     the execute_script calls of lines 370-375 succeed
\*   link        how the host link is found: "href" (an anchor with an href),
\*               "click" (an anchor without href whose click leads to /users/),
\*               "none" (no anchor, or the click leads nowhere)
\*   fallback    an <a href=".../users/show/..."> exists
\*   profile_nav driver.get(host_profile_url) succeeds
\*   name        the finder that yields the host name: "heading", "h1", "none"
\*   count       "missing", or the text of #listings-scroller-description
Pages ==
    [nav : BOOLEAN, title : {"xpath", "h1", "none"}, scripts : BOOLEAN,
     link : {"href", "click", "none"}, fallback : BOOLEAN, profile_nav : BOOLEAN,
     name : {"heading", "h1", "none"},
     count : {"missing", <<>>, <<Number(<<"1", "1">>), Word("listings")>>}]

TITLE_SENTINEL == "Titulo nao capturado"

NAME_SENTINEL == "Nao encontrado"

\* return None
NoRecord ==
    [ok |-> FALSE, listing_title |-> "", host_name |-> "", host_profile_url |-> "",
     host_listings_count |-> 0]

\* lines 439-481: the host profile page is open
profile_record(page) ==
    LET host_name == IF page.name = "none" THEN NAME_SENTINEL ELSE "host name"
        counted   == IF page.count = "missing" THEN 0 ELSE parse_listings_count(page.count)
    IN [ok |-> TRUE,
        listing_title |-> IF page.title = "none" THEN TITLE_SENTINEL ELSE "listing title",
        host_name |-> host_name,
        host_profile_url |-> "host url",
        host_listings_count |->
            IF counted = 0 /\ host_name # NAME_SENTINEL THEN 1 ELSE counted]

\* scrape_profile, lines 349-485
scrape_profile(page) ==
    IF ~page.nav \/ ~page.scripts THEN NoRecord              \* except at line 483
    ELSE IF page.link = "href"
         THEN IF page.profile_nav THEN profile_record(page) ELSE NoRecord   \* line 422
    ELSE IF page.link = "click" THEN profile_record(page)     \* lines 408-417
    ELSE IF page.fallback /\ page.profile_nav THEN profile_record(page)  \* lines 426-429
    ELSE NoRecord                                              \* lines 430-434

\* run(), line 255
call_scrape_profile ==
    /\ call = NoCall
    /\ \E page \in Pages :
         call' = [fn |-> "scrape_profile", arg |-> page, result |-> scrape_profile(page)]
    /\ UNCHANGED <<world, run, discFile, outFile, debugFile, pc, hist, mem, notice, is_running,
                   threads, after_queue, click, console>>

ProfileSpec == Quiescent /\ [][call_scrape_profile]_vars

\* --------------------------------------------------------- flush_buffer
\* Two consecutive calls of flush_buffer in run 1, on any table file and any
\* batches of at most MaxBatch records of this run.
StoredTables ==
    {NoTable} \cup {[exists |-> TRUE, rows |-> <<>>]}
              \cup {[exists |-> TRUE, rows |-> <<<<u, 0>>>>] : u \in {1, 2, 3}}

Batches ==
    {b \in UNION {[1..n -> {<<u, 1>> : u \in {1, 2, 3}}] : n \in 1..MaxBatch} :
        Injective(b)}

\* the table file as some earlier run left it; self.output_df is what
\* load_existing_dataframe made of it: its rows, or nothing when it is unreadable
FlushInit ==
    /\ world = [site |-> 3, targets |-> {1}, runs |-> 1, faulty |-> TRUE]
    /\ run = 1
    /\ discFile = NoFile
    /\ outFile \in StoredTables
    /\ pc = "loop"
    /\ target_count = 1
    /\ output_df \in {outFile.rows, <<>>}
    /\ processed_urls = {}
    /\ discovered_urls = {}
    /\ driver = TRUE
    /\ pending_urls = <<>>
    /\ max_new = 0
    /\ new_urls = {}
    /\ page_number = 0
    /\ urls_to_scrape = <<>>
    /\ index = 0
    /\ buffer = <<>>
    /\ notice = "none"
    /\ hist = NoHist
    /\ debugFile = NoScreenshot
    /\ GuiInit

\* self.flush_buffer(rows), lines 264 and 273; call keeps the batches handed
\* over and the table, in memory and on disk, before and after each call
call_flush_buffer ==
    /\ Len(call.arg) < 2
    /\ ~hist.fatal
    /\ \E rows \in Batches, readOk, writeOk \in Outcome :
         /\ Flush(rows, readOk, writeOk)
         /\ call' = [fn |-> "flush_buffer",
                     arg |-> Append(call.arg, rows),
                     result |-> (IF call = NoCall
                                 THEN <<[df |-> output_df, file |-> outFile]>>
                                 ELSE call.result)
                                \o <<[df |-> output_df', file |-> outFile']>>]
    /\ UNCHANGED <<world, run, discFile, debugFile, pc, target_count, processed_urls,
                   discovered_urls, driver, pending_urls, max_new, new_urls,
                   page_number, urls_to_scrape, index, buffer, notice, is_running,
                   threads, after_queue, click, console>>

FlushSpec == FlushInit /\ [][call_flush_buffer]_vars

\* ------------------------------------------------------------ build_paths
DATA_DIR == "data"

DEBUG_DIR == "debug"

\* what the operator may pick as output folder; "" = none picked
Folders == {"", "data", "exports", "backup"}

\* the directories that can hold the city's table file
Dirs == Folders \ {""}

\* build_paths, lines 62-77, for one city: the directory of each of the three
\* files (the file names depend on the slug only)
build_paths(output_folder) ==
    LET base_out == IF output_folder # "" THEN output_folder ELSE DATA_DIR
    IN [output_file |-> base_out,
        discovered_urls_file |-> DATA_DIR,
        debug_screenshot_file |-> DEBUG_DIR]

\* the disk as earlier runs may have left it: the city's table file in each
\* directory, and the city's discovered-URL file
Disks ==
    [tables : [Dirs -> {NoTable,
                        [exists |-> TRUE, rows |-> <<<<1, 0>>>>],
                        [exists |-> TRUE, rows |-> <<<<1, 0>>, <<2, 0>>>>]}],
     urls : {NoFile,
             [exists |-> TRUE, lines |-> <<1>>],
             [exists |-> TRUE, lines |-> <<1, 2>>]}]

\* SeleniumScraper.__init__, lines 147-154, and the pending queue of run(),
\* line 228, with every file readable
SeleniumScraper(disk, output_folder) ==
    LET paths      == build_paths(output_folder)
        processed  == load_processed_urls(disk.tables[paths.output_file], TRUE)
        discovered == load_discovered_urls(disk.urls, TRUE)
    IN [processed_urls |-> processed,
        discovered_urls |-> discovered,
        pending_urls |-> pending_set(discovered, processed)]

\* run_scraper, line 492: the scraper is constructed for the city
call_SeleniumScraper ==
    /\ call = NoCall
    /\ \E disk \in Disks, output_folder \in Folders :
         call' = [fn |-> "SeleniumScraper",
                  arg |-> [disk |-> disk, output_folder |-> output_folder],
                  result |-> SeleniumScraper(disk, output_folder)]
    /\ UNCHANGED <<world, run, discFile, outFile, debugFile, pc, hist, mem, notice,
                   is_running, threads, after_queue, click, console>>

ResumeSpec == Quiescent /\ [][call_SeleniumScraper]_vars

\* ------------------------------------------------------------- claims
\* rows of the persisted table written by the current run
NewRows == {i \in DOMAIN outFile.rows : outFile.rows[i][2] = run}

\* the run has ended by returning from run() without a failed driver or file
\* operation and without a failed extraction
CleanRun == pc = "returned" /\ hist.began /\ ~hist.faults /\ hist.misses = 0

\* C1: after every flush_buffer call that completes with a non-empty batch the
\* persisted table has at most one row per source_url, and for a source_url
\* that was in the previous table and is in the batch the batch's row is the
\* one in the table.
C1_FlushKeepsOneNewestRow ==
    hist.flushes > 0 =>
        /\ NoDuplicateUrl(outFile.rows)
        /\ \A i \in DOMAIN hist.lastBatch :
             hist.lastBatch[i][1] \in Urls(hist.prevRows)
                => hist.lastBatch[i] \in Range(outFile.rows)

\* C2: no URL that is in ProcessedURLSet when the run starts is passed to
\* scrape_profile in that run, and no URL is passed to it twice in one run.
C2_NoRepeatedWork ==
    /\ Injective(hist.calls)
    /\ Range(hist.calls) \cap hist.startProcessed = {}

C2_Witness ==
    /\ run = 2
    /\ pc = "returned"
    /\ hist.startProcessed # {}
    /\ Len(hist.calls) >= 1

\* C3: the pending queue computed at run start holds exactly the URLs of
\* DiscoveredURLSet that are not in ProcessedURLSet, each once; when
\* ProcessedURLSet is a subset of DiscoveredURLSet it has |D| - |P| entries.
C3_PendingIsDifference ==
    hist.began =>
        /\ Range(hist.startPending) = hist.startDiscovered \ hist.startProcessed
        /\ Injective(hist.startPending)
        /\ hist.startProcessed \subseteq hist.startDiscovered
             => Len(hist.startPending) = Cardinality(hist.startDiscovered)
                                          - Cardinality(hist.startProcessed)

C3_Witness ==
    /\ hist.began
    /\ hist.startProcessed # {}
    /\ hist.startProcessed \subseteq hist.startDiscovered
    /\ Len(hist.startPending) = 2

\* the re-run scenario: target 5, five discovered URLs, three of them processed
RerunScenario ==
    /\ hist.began
    /\ target_count = 5
    /\ Cardinality(hist.startDiscovered) = 5
    /\ Cardinality(hist.startDiscovered \cap hist.startProcessed) = 3
    /\ Len(hist.startRows) = 3

EndToEndScenario ==
    /\ CleanRun
    /\ hist.startRows = <<>>
    /\ hist.startDiscovered = {}
    /\ hist.startProcessed = {}
    /\ Cardinality(hist.found) >= target_count

\* C5: from the empty state discovery runs before any profile is scraped, and
\* when it returns at least target_count URLs and every extraction succeeds the
\* run ends with exactly target_count rows, all with distinct source_url, and a
\* discovered-URL file of at least target_count entries.
C5_EndToEnd ==
    /\ (hist.began /\ hist.startDiscovered = {} /\ hist.calls # <<>>) => hist.discCalls = 1
    /\ EndToEndScenario =>
         /\ Len(outFile.rows) = target_count
         /\ Cardinality(Urls(outFile.rows)) = target_count
         /\ Len(discFile.lines) >= target_count

C5_Witness ==
    /\ EndToEndScenario
    /\ target_count > CHECKPOINT_SIZE
    /\ hist.flushes = 2
    /\ Len(outFile.rows) = target_count

\* C6: discover_listings(max_new) never returns more than max_new URLs.
C6_DiscoveryWithinQuota ==
    pc = "disc_ret" => Cardinality(new_urls) <= max_new

\* C7: discover_listings always terminates, whatever the site keeps offering.
C7_DiscoveryTerminates == <>(pc = "disc_ret")

\* C8: the discovered-URL file only grows: no step removes a URL from it.
C8_DiscoveredFileOnlyGrows ==
    [][Range(discFile.lines) \subseteq Range(discFile'.lines)]_vars

\* C9: no step of a run (a checkpoint, a fatal error, a crash) removes a row
\* from the persisted table, except by replacing it with a row of the same
\* source_url that is at least as recent.
C9_FlushedRowsSurvive ==
    [][\A i \in DOMAIN outFile.rows :
          \E j \in DOMAIN outFile'.rows :
             /\ outFile'.rows[j][1] = outFile.rows[i][1]
             /\ outFile'.rows[j][2] >= outFile.rows[i][2]]_vars

\* C10: a run that met a run-fatal error is never reported as a success.
C10_FatalNeverReportedAsSuccess == ~(notice = "success" /\ hist.fatal)

\* C11: when the output table file is present but cannot be read at
\* construction, a run that ends without a fatal error has flushed every record
\* it extracted: each URL it scraped successfully has its row of this run in
\* the persisted table.
C11_UnreadableTableKeepsNewRecords ==
    (pc = "returned" /\ hist.unreadable /\ ~hist.fatal) =>
        \A u \in processed_urls \ hist.startProcessed :
            <<u, run>> \in Range(outFile.rows)

\* C12: whenever run() has returned (normal completion, the empty-pending
\* return, or an exception anywhere after the driver was created) the browser
\* session has been released: self.driver is None.
C12_DriverReleasedOnReturn == pc = "returned" => driver = FALSE

\* a fatal error in the scraping loop, after the driver was created
C12_Witness ==
    /\ pc = "returned"
    /\ hist.fatal
    /\ hist.calls # <<>>
    /\ driver = FALSE

\* a scrape_profile call that returned no record: the loop goes on to the next
\* URL, and the URL joins neither ProcessedURLSet, nor the buffer, nor the table
FailedScrapeIsSkipped ==
    hist'.misses > hist.misses =>
        /\ pc' = "loop"
        /\ index' = index + 1
        /\ urls_to_scrape[index'] \notin processed_urls'
        /\ processed_urls' = processed_urls
        /\ buffer' = buffer
        /\ outFile' = outFile

C14_SingleRunInFlight ==
    /\ threads <= 1
    /\ threads > 0 => is_running
    /\ click.busy => ~click.started

\* a start click arrived while a run was in flight and was ignored
C14_Witness ==
    /\ threads = 1
    /\ is_running
    /\ click.busy
    /\ ~click.started

\* the city field is not blank
NonBlankCity(text) == \E i \in DOMAIN text : text[i] # " "

\* the count field holds a decimal numeral, possibly signed and surrounded by
\* blanks, that denotes a number greater than zero
PositiveIntegerText(text) ==
    \E i, j \in DOMAIN text :
        /\ i <= j
        /\ \A k \in DOMAIN text : (k < i \/ k > j) => text[k] = " "
        /\ \A k \in (i + 1)..j : IsDigit(text[k])
        /\ IsDigit(text[i]) \/ (text[i] = "+" /\ i < j)
        /\ \E k \in i..j : IsDigit(text[k]) /\ text[k] # "0"

\* C15: a start click with a blank city, or with a count that is not an
\* integer or not positive, starts no run: no worker is created, and when no
\* run was in flight is_running is still false afterwards.
C15_InvalidInputStartsNothing ==
    LET valid == NonBlankCity(click.city) /\ PositiveIntegerText(click.qtd) IN
    /\ click.started => valid
    /\ (click # NoClick /\ ~click.busy /\ ~valid) => (~is_running /\ threads = 0)

\* a click with a usable city and a count of "0" was refused while idle
C15_Witness ==
    /\ click = [city |-> <<"a", "a", "a">>, qtd |-> <<"0">>, busy |-> FALSE, started |-> FALSE]
    /\ notice = "warn_qty"
    /\ ~is_running
    /\ threads = 0

\* the slug of the default city "Jacarei - SP"
JacareiSlug == <<"j", "a", "c", "a", "r", "e", "i", "-", "s", "p">>

\* a slug is never empty and holds only ASCII letters, digits and hyphens
WellFormedSlug(slug) ==
    /\ slug # <<>>
    /\ \A i \in DOMAIN slug : IsAlnum(slug[i]) \/ slug[i] = "-"

\* C16 as stated: city_slug returns a well-formed slug for every input; empty
\* and blank input give the default city's slug, and every other input with no
\* ASCII letter or digit gives the sentinel "cidade".
C16_SlugSentinelWithoutAsciiAlnum ==
    call.fn = "city_slug" =>
        /\ WellFormedSlug(call.result)
        /\ strip(call.arg) = <<>> => call.result = JacareiSlug
        /\ (strip(call.arg) # <<>> /\ \A i \in DOMAIN call.arg : ~IsAlnum(call.arg[i]))
              => call.result = CIDADE

\* C16 amended: city_slug returns a well-formed slug for every input; empty and
\* blank input give the default city's slug, and every other input whose
\* compatibility decomposition (NFKD) holds no ASCII letter or digit gives the
\* sentinel "cidade"; an accented Latin letter counts as its base letter.
C16_SlugWellFormed ==
    call.fn = "city_slug" =>
        /\ WellFormedSlug(call.result)
        /\ strip(call.arg) = <<>> => call.result = JacareiSlug
        /\ (strip(call.arg) # <<>>
               /\ \A i \in DOMAIN NFKD(call.arg) : ~IsAlnum(NFKD(call.arg)[i]))
              => call.result = CIDADE

\* a name made of an ideograph and punctuation got the sentinel
C16_Witness ==
    /\ call.fn = "city_slug"
    /\ call.arg = <<"/cjk", "!", "/cjk">>
    /\ call.result = CIDADE

\* the fixed order: "de/of N <keyword>", "mostrando ... N itens",
\* "N <keyword>", "<digits> listings/anuncios"
FixedOrder == <<"of_n_items", "showing", "n_listings", "digits_listings">>

\* the patterns, by position in the fixed order, whose search finds a match
Matching(t) == {k \in DOMAIN FixedOrder : search(FixedOrder[k], t).found}

\* ... and those whose match captured at least one digit
Capturing(t) ==
    {k \in Matching(t) : \E i \in DOMAIN search(FixedOrder[k], t).group :
                             IsDigit(search(FixedOrder[k], t).group[i])}

\* the captured group of the k-th pattern, separators removed, as a number
Captured(t, k) == Decimal(only_digits(search(FixedOrder[k], t).group))

\* no token of the text is a listing keyword
NoKeyword(text) ==
    \A i \in DOMAIN text :
        normalized(text)[i].pre \notin {"itens", "items", "listings", "anuncios",
                                         "acomodacoes", "places"}

\* C17 as stated: the first pattern, in list order, that matches determines
\* the result (its group without separators, as a number); the result is 0
\* exactly when no pattern matches; text without a listing keyword yields 0.
C17_FirstMatchDecides ==
    call.fn = "parse_listings_count" =>
        LET t == normalized(call.arg) IN
        /\ Matching(t) # {} => call.result = Captured(t, SetMin(Matching(t)))
        /\ call.result = 0 <=> Matching(t) = {}
        /\ NoKeyword(call.arg) => call.result = 0

\* C17 amended: the patterns are tried in list order and the first one whose
\* match captured at least one digit determines the result (its group without
\* separators, as a non-negative number); a match that captured separators
\* only is passed over.  The result is 0 when no pattern captured a digit, and
\* otherwise only when the captured number is 0; text without a listing
\* keyword yields 0.
C17_FirstCapturingMatchDecides ==
    call.fn = "parse_listings_count" =>
        LET t == normalized(call.arg) IN
        /\ call.result >= 0
        /\ Capturing(t) # {} => call.result = Captured(t, SetMin(Capturing(t)))
        /\ Capturing(t) = {} => call.result = 0
        /\ NoKeyword(call.arg) => call.result = 0

\* "2.5 listings" matches the third and the fourth pattern with different
\* groups; the third decided
C17_Witness ==
    /\ call.fn = "parse_listings_count"
    /\ call.arg = <<Number(<<"2", ".", "5">>), Word("listings")>>
    /\ call.result = 25

\* C18: the buffer never holds more than CHECKPOINT_SIZE rows and holds fewer
\* whenever the next URL is about to be visited (a full buffer was flushed and
\* cleared first); a run whose scraping loop ended without a fatal error has
\* passed every record it extracted through a completed flush_buffer call, and
\* with every file read succeeding those records are rows of the table.
C18_Checkpointing ==
    /\ Len(buffer) <= CHECKPOINT_SIZE
    /\ pc = "loop" => Len(buffer) < CHECKPOINT_SIZE
    /\ (pc = "returned" /\ hist.calls # <<>> /\ ~hist.fatal) =>
          /\ hist.handed = Len(hist.calls) - hist.misses
          /\ ~hist.faults =>
                \A u \in processed_urls \ hist.startProcessed :
                    <<u, run>> \in Range(outFile.rows)

\* the fifth record has just been flushed, the buffer is empty again and a
\* sixth URL is still to be visited
C18_Witness ==
    /\ pc = "loop"
    /\ index = CHECKPOINT_SIZE
    /\ index < Len(urls_to_scrape)
    /\ buffer = <<>>
    /\ hist.handed = CHECKPOINT_SIZE
    /\ Len(outFile.rows) = CHECKPOINT_SIZE

\* C19: discovery runs at most once per run, before any profile is visited,
\* and exactly when the pending queue computed at start is shorter than the
\* target.  A run that meets no fatal error and whose pending queue is empty
\* after that returns without visiting a URL or writing the table; otherwise it
\* visits the first target_count pending URLs, in order, and has flushed every
\* record when it returns.
C19_RunLifecycle ==
    /\ hist.discCalls <= 1
    /\ hist.began => (hist.discCalls = 1 <=> Len(hist.startPending) < target_count)
    /\ pc \in {"disc_nav", "disc_page", "disc_ret"} =>
          hist.discCalls = 1 /\ hist.calls = <<>> /\ hist.flushes = 0
    /\ (pc = "returned" /\ hist.began /\ ~hist.fatal) =>
          IF pending_urls = <<>>
          THEN hist.calls = <<>> /\ hist.flushes = 0 /\ outFile.rows = hist.startRows
          ELSE /\ hist.calls = SubSeq(pending_urls, 1, Min(target_count, Len(pending_urls)))
               /\ hist.handed = Len(hist.calls) - hist.misses
               /\ buffer # <<>> => hist.lastBatch = buffer

\* discovery ran, found nothing, and the run returned without visiting a URL
C19_Witness ==
    /\ pc = "returned"
    /\ hist.began
    /\ ~hist.fatal
    /\ hist.discCalls = 1
    /\ pending_urls = <<>>
    /\ hist.calls = <<>>
    /\ hist.flushes = 0

\* C20: when discovery returned new URLs, from the first scrape_profile call
\* to the return of run() the discovered-URL file holds the merged set: the
\* URLs discovered before the run and the new ones, whatever the scrapes do.
C20_DiscoveredSavedBeforeScraping ==
    (hist.found # {} /\ (pc = "loop" \/ hist.calls # <<>>)) =>
        /\ discFile.exists
        /\ (hist.startDiscovered \cup hist.found) \subseteq Range(discFile.lines)
        /\ discovered_urls = hist.startDiscovered \cup hist.found

\* every scrape of the run failed; what discovery found is on disk
C20_Witness ==
    /\ pc = "returned"
    /\ hist.found # {}
    /\ hist.calls # <<>>
    /\ hist.misses = Len(hist.calls)
    /\ hist.found \subseteq Range(discFile.lines)

\* C21: a run with target T (at least 1 after clamping) passes at most T URLs
\* to scrape_profile, all of them from the pending queue, and so the table ends
\* with at most T rows of this run and at most T rows more than it started
\* with, also when discovery returned more than T new URLs.
C21_AtMostTargetVisits ==
    hist.began =>
        /\ target_count >= 1
        /\ Len(hist.calls) <= target_count
        /\ hist.calls # <<>> => Range(hist.calls) \subseteq Range(pending_urls)
        /\ Cardinality(NewRows) <= target_count
        /\ Len(outFile.rows) <= Len(hist.startRows) + target_count

\* discovery returned more URLs than the target; the run visited exactly
\* target_count of them
C21_Witness ==
    /\ pc = "returned"
    /\ ~hist.fatal
    /\ Cardinality(hist.found) > target_count
    /\ Len(hist.calls) = target_count
    /\ Cardinality(NewRows) = target_count

\* C22: when every navigation and page script of scrape_profile succeeds, a
\* record is returned whatever extraction sub-step fails, with the sentinel in
\* the field of a failed sub-step (title, host link, host name, count); no
\* record is returned when the navigation to the listing fails.
C22_SubStepFailureKeepsRecord ==
    call.fn = "scrape_profile" =>
        /\ ~call.arg.nav => ~call.result.ok
        /\ (call.arg.nav /\ call.arg.scripts /\ call.arg.profile_nav) =>
              /\ call.result.ok
              /\ call.arg.title = "none" => call.result.listing_title = TITLE_SENTINEL
              /\ call.arg.name = "none" => call.result.host_name = NAME_SENTINEL
              /\ call.arg.count = "missing" => call.result.host_listings_count \in {0, 1}

\* C23: a discovery pass that hits an error returns the URLs it had collected
\* before the error, and run() goes on with them: its next step merges them
\* into the discovered set and, unless writing the discovered-URL file fails,
\* enters the scraping loop with a pending queue that holds those not yet
\* processed (pc' = "idle" is the death of the process, not a step of run()).
C23_DiscoveryErrorKeepsPartial ==
    /\ [](hist.discError => (pc = "disc_ret" /\ new_urls = hist.collected))
    /\ [][(pc = "disc_ret" /\ hist.discError /\ pc' # "idle") =>
            /\ hist.collected \subseteq discovered_urls'
            /\ hist'.found = hist.collected
            /\ \/ hist'.fatal /\ pc' = "returned"
               \/ /\ ~hist'.fatal
                  /\ hist'.began
                  /\ pc' \in {"loop", "returned"}
                  /\ (hist.collected \ processed_urls) \subseteq Range(pending_urls')
                  /\ pc' = "returned" => urls_to_scrape' = <<>>]_vars

\* a discovery pass has failed on a later page and returns what it had collected
C23_Witness ==
    /\ hist.discError
    /\ hist.collected # {}
    /\ pc = "disc_ret"
    /\ page_number > 1

\* C24: when a discovery pass has failed, a screenshot taken in this run is at
\* the city's debug screenshot path by the time discover_listings returns.
C24_ScreenshotOnDiscoveryError ==
    (hist.discError /\ pc = "disc_ret") => (debugFile.exists /\ debugFile.run = run)

\* C25: after every flush_buffer call that returns without error on a
\* non-empty batch, every source_url of the batch has a row in the persisted
\* table, whatever the state of the output file was when the flush began.
C25_FlushedBatchIsPersisted ==
    hist.flushes > 0 => Urls(hist.lastBatch) \subseteq Urls(outFile.rows)

\* C26: when flush_buffer has returned twice in a row, (a) if both calls got
\* the same batch the persisted table has the rows it had after the first
\* call, and (b) if the two batches share a source_url the persisted table has
\* the keys that one flush of the two batches together, from the state before
\* the first call, would have left.
C26_FlushIdempotent ==
    (call.fn = "flush_buffer" /\ Len(call.arg) = 2 /\ ~hist.fatal) =>
        LET first  == call.arg[1]
            second == call.arg[2]
            start  == call.result[1]
            once   == call.result[2]
            twice  == call.result[3]
        IN /\ first = second => twice.file.rows = once.file.rows
           /\ Urls(first) \cap Urls(second) # {} =>
                 \E readOk \in BOOLEAN :
                     Urls(twice.file.rows) =
                         Urls(flush_table(start.df, first \o second, start.file, readOk))

\* C27: the resume state a scraper is constructed with (processed URLs,
\* discovered URLs, pending queue) is the one it would be constructed with for
\* any other output folder on the same disk.
C27_ResumeStateIgnoresOutputFolder ==
    call.fn = "SeleniumScraper" =>
        \A other \in Folders : SeleniumScraper(call.arg.disk, other) = call.result

\* a step in which the worker thread posted something to the UI thread
WorkerPosted ==
    /\ threads > 0
    /\ click' = click
    /\ Len(after_queue') > Len(after_queue)

\* C28: a step of the worker thread only posts callbacks: it leaves is_running,
\* the dialogs and the console alone; a log line reaches the console, and the
\* start action is re-enabled, only when the UI thread runs the posted
\* callback; and when on_process_finished of a run is applied, no callback
\* posted by that run is still waiting (none is ever queued behind it).
C28_WorkerOnlyPosts ==
    /\ [](\A i, j \in DOMAIN after_queue :
            (i < j /\ after_queue[i].fn = "on_process_finished")
                => after_queue[j].run # after_queue[i].run)
    /\ [][WorkerPosted => UNCHANGED <<is_running, notice, console>>]_vars
    /\ [][console' > console =>
            (after_queue # <<>> /\ Head(after_queue).fn = "_append_log"
             /\ after_queue' = Tail(after_queue))]_vars
    /\ [][(is_running /\ ~is_running') =>
            /\ after_queue # <<>>
            /\ Head(after_queue).fn = "on_process_finished"
            /\ \A i \in DOMAIN after_queue' : after_queue'[i].run # Head(after_queue).run]_vars

\* a run whose worker logged has ended: every line is in the console, the
\* dialog was shown and the start action is enabled again
C28_Witness ==
    /\ run >= 1
    /\ ~is_running
    /\ console = MaxLogs + 2
    /\ notice \in {"success", "error"}
    /\ after_queue = <<>>

\* C29: when the worker of a run ends, on_process_finished of that run is in
\* the event queue; and whenever the worker has ended while is_running is
\* still true, is_running eventually becomes false.
C29_RunEndReenablesStart ==
    /\ [][threads' < threads =>
            \E i \in DOMAIN after_queue' :
                after_queue'[i] = [fn |-> "on_process_finished", run |-> run]]_vars
    /\ (is_running /\ threads = 0) ~> ~is_running

\* a run was started, its worker ended, and the start action is enabled again
C29_Witness ==
    /\ click.started
    /\ run = MaxRuns
    /\ threads = 0
    /\ ~is_running

====
